---- MODULE Spec2Model ----
(***************************************************************************)
(* Model of the match discovery and ranking engine of the dating-app       *)
(* backend: app/services/matching_service.py (MatchingService) with the    *)
(* Profile record of app/models/profile.py.                                *)
(*                                                                         *)
(* Conventions.                                                            *)
(*  - An Optional[T] attribute is <<>> when it is None and <<v>> when it   *)
(*    holds v.  Lists are sequences (duplicates allowed), strings that the *)
(*    code lowercases are sequences of one-character strings.              *)
(*  - Python floats are modelled as exact rationals <<n, d>> in lowest     *)
(*    terms with d > 0.                                                    *)
(*  - Latitude and longitude are integers counting hundredths of a degree. *)
(*  - The clock and last_active_at count half hours.                       *)
(***************************************************************************)
EXTENDS Integers, Sequences, FiniteSets, TLC

VARIABLES
    user_profile,   \* the seeker: the Profile handed to the engine
    match_profile,  \* pure-function harness: the candidate handed to the function
    fn_pc,          \* pure-function harness: "input" before the call, then the function applied
    fn_out,         \* pure-function harness: what the function returned
    profiles,       \* the profiles table, in the order the query returns its rows
    now,            \* datetime.utcnow()
    pc,             \* per find_matches call: position in the coroutine
    args,           \* per call: [limit, offset]
    all_profiles,   \* per call: local all_profiles
    filtered,       \* per call: local filtered
    matches,        \* per call: local scored_matches / boosted_matches (same list object)
    called_at,      \* per call: the clock reading _apply_boosts saw
    result          \* per call: the returned page

vars == <<user_profile, match_profile, fn_pc, fn_out, profiles, now,
          pc, args, all_profiles, filtered, matches, called_at, result>>

fn_vars == <<user_profile, match_profile, fn_pc, fn_out>>
call_vars == <<profiles, now, pc, args, all_profiles, filtered,
               matches, called_at, result>>

----------------------------------------------------------------------------
(* Optional values and Python truthiness                                   *)

None == <<>>
Some(v) == <<v>>
Val(x) == x[1]

\* bool(x) of an Optional[int] / Optional[float]: None and 0 are falsy
TruthyNum(x) == x # None /\ Val(x) # 0
\* bool(x) of an Optional[Enum] or Optional[datetime]: only None is falsy
TruthyObj(x) == x # None
\* bool(x) of an Optional[List] / Optional[str] / Optional[dict]: None and empty are falsy
TruthySeq(x) == x # None /\ Val(x) # <<>>
\* x or []
OrEmpty(x) == IF TruthySeq(x) THEN Val(x) ELSE <<>>

Range(s) == {s[i] : i \in DOMAIN s}
Abs(n) == IF n < 0 THEN -n ELSE n

----------------------------------------------------------------------------
(* Exact rational arithmetic standing for float arithmetic                 *)

RECURSIVE GCD(_, _)
GCD(a, b) == IF b = 0 THEN a ELSE GCD(b, a % b)

Rat(n, d) ==
    LET g == GCD(Abs(n), Abs(d))
        s == IF d < 0 THEN -1 ELSE 1
    IN  <<(s * n) \div g, (s * d) \div g>>

Zero == <<0, 1>>
One == <<1, 1>>
FromInt(n) == <<n, 1>>

RAdd(x, y) ==
    LET g == GCD(x[2], y[2])
        l == (x[2] \div g) * y[2]
    IN  Rat(x[1] * (l \div x[2]) + y[1] * (l \div y[2]), l)

RSub(x, y) == RAdd(x, <<-y[1], y[2]>>)

RMul(x, y) ==
    LET a == Rat(x[1], y[2])
        b == Rat(y[1], x[2])
    IN  <<a[1] * b[1], a[2] * b[2]>>

\* x / y for y # 0
RDiv(x, y) == RMul(x, IF y[1] < 0 THEN <<-y[2], -y[1]>> ELSE <<y[2], y[1]>>)

RLeq(x, y) ==
    LET g == GCD(x[2], y[2])
    IN  x[1] * (y[2] \div g) <= y[1] * (x[2] \div g)

RLt(x, y) == RLeq(x, y) /\ x # y
RGeq(x, y) == RLeq(y, x)
RGt(x, y) == RLt(y, x)
RMin(x, y) == IF RLeq(x, y) THEN x ELSE y

\* round(x, 2): nearest multiple of 1/100, ties to the even one
Round2(x) ==
    LET h == RMul(x, FromInt(100))
        f == h[1] \div h[2]
        r == h[1] % h[2]
        n == IF 2 * r < h[2] THEN f
             ELSE IF 2 * r > h[2] THEN f + 1
             ELSE IF f % 2 = 0 THEN f ELSE f + 1
    IN  Rat(n, 100)

----------------------------------------------------------------------------
(* Haversine distance                                                      *)

\* The coordinates the model uses, in hundredths of a degree.
Lats == {0, 3, 14, 120}
Lons == {0, 1800}

\* _calculate_distance with R = 6371, in metres (rounded to the metre), for
\* the coordinates of Lats x Lons.  The formula depends on the two latitudes
\* and on the difference of the longitudes only and is symmetric; equal
\* points give a = 0, c = 0 and distance exactly 0.
CalculateDistanceMetres(lat1, lon1, lat2, lon2) ==
    LET l == {lat1, lat2}
    IN  IF lon1 = lon2
        THEN CASE Cardinality(l) = 1 -> 0
               [] l = {0, 3}      -> 3336
               [] l = {0, 14}     -> 15567
               [] l = {0, 120}    -> 133434
               [] l = {3, 14}     -> 12231
               [] l = {3, 120}    -> 130098
               [] l = {14, 120}   -> 117867
        ELSE CASE l = {0}         -> 2001509
               [] l = {3}         -> 2001508
               [] l = {14}        -> 2001503
               [] l = {120}       -> 2001066
               [] l = {0, 3}      -> 2001511
               [] l = {0, 14}     -> 2001567
               [] l = {0, 120}    -> 2005805
               [] l = {3, 14}     -> 2001544
               [] l = {3, 120}    -> 2005582
               [] l = {14, 120}   -> 2004810

\* distance in kilometres, as the code's float
CalculateDistance(lat1, lon1, lat2, lon2) ==
    Rat(CalculateDistanceMetres(lat1, lon1, lat2, lon2), 1000)

----------------------------------------------------------------------------
(* Sub-scores                                                              *)

\* ScoreAgeCompatibility without the test for an equal age
ScoreAgeCompatibility_NoExactMatch(u, m) ==
    IF ~TruthyNum(u.age) \/ ~TruthyNum(m.age)
    THEN Rat(1, 2)
    ELSE LET age_diff == Abs(Val(u.age) - Val(m.age))
         IN  IF age_diff <= 2 THEN Rat(9, 10)
             ELSE IF age_diff <= 5 THEN Rat(7, 10)
             ELSE IF age_diff <= 10 THEN Rat(1, 2)
             ELSE Rat(3, 10)

\* ScoreAgeCompatibility taking the difference of the ages without abs()
ScoreAgeCompatibility_SignedDifference(u, m) ==
    IF ~TruthyNum(u.age) \/ ~TruthyNum(m.age)
    THEN Rat(1, 2)
    ELSE LET age_diff == Val(u.age) - Val(m.age)
         IN  IF age_diff = 0 THEN One
             ELSE IF age_diff <= 2 THEN Rat(9, 10)
             ELSE IF age_diff <= 5 THEN Rat(7, 10)
             ELSE IF age_diff <= 10 THEN Rat(1, 2)
             ELSE Rat(3, 10)

ScoreAgeCompatibility(u, m) ==
    IF ~TruthyNum(u.age) \/ ~TruthyNum(m.age)
    THEN Rat(1, 2)
    ELSE LET age_diff == Abs(Val(u.age) - Val(m.age))
         IN  IF age_diff = 0 THEN One
             ELSE IF age_diff <= 2 THEN Rat(9, 10)
             ELSE IF age_diff <= 5 THEN Rat(7, 10)
             ELSE IF age_diff <= 10 THEN Rat(1, 2)
             ELSE Rat(3, 10)

ScoreDistance(u, m) ==
    IF ~(TruthyNum(u.latitude) /\ TruthyNum(u.longitude)
         /\ TruthyNum(m.latitude) /\ TruthyNum(m.longitude))
    THEN Rat(1, 2)
    ELSE LET distance_km == CalculateDistance(Val(u.latitude), Val(u.longitude),
                                              Val(m.latitude), Val(m.longitude))
             max_distance == IF TruthyNum(u.max_distance_km)
                             THEN Val(u.max_distance_km) ELSE 100
             ratio == RDiv(distance_km, FromInt(max_distance))
         IN  IF distance_km = Zero THEN One
             ELSE IF RGeq(ratio, One) THEN Rat(1, 10)
             ELSE IF RGeq(ratio, Rat(1, 2)) THEN Rat(1, 2)
             ELSE RSub(One, RMul(ratio, Rat(1, 2)))

\* ScoreInterests counting list entries instead of distinct tags
ScoreInterests_CountsDuplicates(user_interests, match_interests) ==
    IF user_interests = <<>> \/ match_interests = <<>>
    THEN Rat(3, 10)
    ELSE LET set_match == Range(match_interests)
             Shared(i) == user_interests[i] \in set_match
             intersection == Cardinality({i \in DOMAIN user_interests : Shared(i)})
             union == Len(user_interests) + Len(match_interests) - intersection
         IN  IF union = 0 THEN Zero ELSE Rat(intersection, union)

ScoreInterests(user_interests, match_interests) ==
    IF user_interests = <<>> \/ match_interests = <<>>
    THEN Rat(3, 10)
    ELSE LET set_user == Range(user_interests)
             set_match == Range(match_interests)
             intersection == Cardinality(set_user \cap set_match)
             union == Cardinality(set_user \cup set_match)
         IN  IF union = 0 THEN Zero ELSE Rat(intersection, union)

\* score / factors, or the neutral 0.5 when no factor was available
Average(score, factors) ==
    IF factors = 0 THEN Rat(1, 2) ELSE RDiv(score, FromInt(factors))

ScoreValues(u, m) ==
    LET rel == TruthyObj(u.religion) /\ TruthyObj(m.religion)
        chi == TruthyObj(u.children_status) /\ TruthyObj(m.children_status)
        vls == TruthySeq(u.values) /\ TruthySeq(m.values)
        s1 == IF rel /\ u.religion = m.religion THEN One ELSE Zero
        s2 == IF chi /\ u.children_status = m.children_status THEN One ELSE Zero
        s3 == IF vls THEN ScoreInterests(Val(u.values), Val(m.values)) ELSE Zero
        factors == (IF rel THEN 1 ELSE 0) + (IF chi THEN 1 ELSE 0) + (IF vls THEN 1 ELSE 0)
    IN  Average(RAdd(RAdd(s1, s2), s3), factors)

\* DrinkingLevel with the default of levels.get() at 0
DrinkingLevel_UnknownIsZero(habit) ==
    CASE habit = "never" -> 0
      [] habit = "occasionally" -> 1
      [] habit = "social_drinker" -> 2
      [] habit = "regularly" -> 3
      [] habit = "heavily" -> 4
      [] OTHER -> 0

DrinkingLevel(habit) ==
    CASE habit = "never" -> 0
      [] habit = "occasionally" -> 1
      [] habit = "social_drinker" -> 2
      [] habit = "regularly" -> 3
      [] habit = "heavily" -> 4
      [] OTHER -> 2

ScoreLifestyle(u, m) ==
    LET dri == TruthyObj(u.drinking_habit) /\ TruthyObj(m.drinking_habit)
        smo == TruthyObj(u.smoking_habit) /\ TruthyObj(m.smoking_habit)
        lif == TruthyObj(u.lifestyle_preference) /\ TruthyObj(m.lifestyle_preference)
        s1 == IF ~dri THEN Zero
              ELSE IF u.drinking_habit = m.drinking_habit THEN One
              ELSE IF Abs(DrinkingLevel(Val(u.drinking_habit))
                          - DrinkingLevel(Val(m.drinking_habit))) <= 1 THEN Rat(7, 10)
              ELSE Zero
        s2 == IF smo /\ u.smoking_habit = m.smoking_habit THEN One ELSE Zero
        s3 == IF lif /\ u.lifestyle_preference = m.lifestyle_preference THEN One ELSE Zero
        factors == (IF dri THEN 1 ELSE 0) + (IF smo THEN 1 ELSE 0) + (IF lif THEN 1 ELSE 0)
    IN  Average(RAdd(RAdd(s1, s2), s3), factors)

\* ScorePersonality giving the full mark to equal types
ScorePersonality_SameIsPerfect(u, m) ==
    IF TruthyObj(u.personality_type) /\ TruthyObj(m.personality_type)
    THEN IF u.personality_type = m.personality_type THEN One ELSE Rat(3, 5)
    ELSE Rat(1, 2)

ScorePersonality(u, m) ==
    IF TruthyObj(u.personality_type) /\ TruthyObj(m.personality_type)
    THEN IF u.personality_type = m.personality_type THEN Rat(4, 5) ELSE Rat(3, 5)
    ELSE Rat(1, 2)

\* str.lower() on the letters the model's strings are made of
LowerChar(c) ==
    CASE c = "L" -> "l"
      [] c = "A" -> "a"
      [] c = "W" -> "w"
      [] OTHER -> c

Lower(s) == [i \in DOMAIN s |-> LowerChar(s[i])]

ScoreBackground(u, m) ==
    LET edu == TruthyObj(u.education_level) /\ TruthyObj(m.education_level)
        fos == TruthySeq(u.field_of_study) /\ TruthySeq(m.field_of_study)
        s1 == IF edu /\ u.education_level = m.education_level THEN One ELSE Zero
        s2 == IF fos /\ Lower(Val(u.field_of_study)) = Lower(Val(m.field_of_study))
              THEN Rat(1, 2) ELSE Zero
        factors == (IF edu THEN 1 ELSE 0) + (IF fos THEN 1 ELSE 0)
    IN  Average(RAdd(s1, s2), factors)

----------------------------------------------------------------------------
(* Weighted compatibility score                                            *)

Dimensions == <<"age", "distance", "interests", "values", "lifestyle",
                "personality", "background">>

\* the point budget of each dimension
Budget ==
    [age |-> 20, distance |-> 15, interests |-> 25, values |-> 15,
     lifestyle |-> 10, personality |-> 10, background |-> 5]

\* user_profile.match_score_weight_preferences or {}
Weights(u) ==
    IF u.match_score_weight_preferences = None
    THEN <<>>
    ELSE Val(u.match_score_weight_preferences)

\* WeightGet reading an override of 0 as no override (weights.get(k) or 1.0)
WeightGet_ZeroIsDefault(weights, k) ==
    IF k \in DOMAIN weights /\ weights[k] # Zero THEN weights[k] ELSE One

\* weights.get(k, 1.0)
WeightGet(weights, k) == IF k \in DOMAIN weights THEN weights[k] ELSE One

\* the seven sub-scores of a pair
SubScores(u, m) ==
    [age |-> ScoreAgeCompatibility(u, m),
     distance |-> ScoreDistance(u, m),
     interests |-> ScoreInterests(OrEmpty(u.hobbies), OrEmpty(m.hobbies)),
     values |-> ScoreValues(u, m),
     lifestyle |-> ScoreLifestyle(u, m),
     personality |-> ScorePersonality(u, m),
     background |-> ScoreBackground(u, m)]

RECURSIVE TotalScore(_, _, _)
\* total_score after the first k dimensions
TotalScore(sub, weights, k) ==
    IF k = 0 THEN Zero
    ELSE LET d == Dimensions[k]
         IN  RAdd(TotalScore(sub, weights, k - 1),
                  RMul(RMul(sub[d], FromInt(Budget[d])), WeightGet(weights, d)))

RECURSIVE MaxScore(_)
\* max_score after the first k dimensions
MaxScore(k) == IF k = 0 THEN 0 ELSE MaxScore(k - 1) + Budget[Dimensions[k]]

CalculateCompatibilityScore(u, m) ==
    LET total_score == TotalScore(SubScores(u, m), Weights(u), Len(Dimensions))
        max_score == MaxScore(Len(Dimensions))
    IN  IF max_score > 0
        THEN RMul(RDiv(total_score, FromInt(max_score)), FromInt(100))
        ELSE Zero

----------------------------------------------------------------------------
(* Hard filter                                                             *)

In(x, list) == x \in Range(list)

\* HasDealBreaker with the occasional smoker let through
HasDealBreaker_RegularOnly(deal_breakers, p) ==
    \/ /\ In("smoking", deal_breakers)
       /\ TruthyObj(p.smoking_habit)
       /\ Val(p.smoking_habit) \in {"regularly"}
    \/ /\ In("no_kids", deal_breakers)
       /\ TruthyObj(p.children_status)
       /\ Val(p.children_status) = "has_children"
    \/ /\ In("drinking", deal_breakers)
       /\ TruthyObj(p.drinking_habit)
       /\ Val(p.drinking_habit) \in {"regularly", "heavily"}

\* HasDealBreaker reading the last tag of the list only
HasDealBreaker_LastTagOnly(deal_breakers, p) ==
    LET last == deal_breakers[Len(deal_breakers)]
    IN  \/ /\ last = "smoking"
           /\ TruthyObj(p.smoking_habit)
           /\ Val(p.smoking_habit) \in {"regularly", "occasionally"}
        \/ /\ last = "no_kids"
           /\ TruthyObj(p.children_status)
           /\ Val(p.children_status) = "has_children"
        \/ /\ last = "drinking"
           /\ TruthyObj(p.drinking_habit)
           /\ Val(p.drinking_habit) \in {"regularly", "heavily"}

HasDealBreaker(deal_breakers, p) ==
    \/ /\ In("smoking", deal_breakers)
       /\ TruthyObj(p.smoking_habit)
       /\ Val(p.smoking_habit) \in {"regularly", "occasionally"}
    \/ /\ In("no_kids", deal_breakers)
       /\ TruthyObj(p.children_status)
       /\ Val(p.children_status) = "has_children"
    \/ /\ In("drinking", deal_breakers)
       /\ TruthyObj(p.drinking_habit)
       /\ Val(p.drinking_habit) \in {"regularly", "heavily"}

\* HasAllMustHaves with no_children failing on an absent children status
HasAllMustHaves_AbsentChildrenFails(must_haves, p, u) ==
    /\ In("same_religion", must_haves)
          => ~(~TruthyObj(p.religion) \/ p.religion # u.religion)
    /\ In("same_education", must_haves)
          => ~(~TruthyObj(p.education_level) \/ p.education_level # u.education_level)
    /\ In("no_children", must_haves)
          => ~(~TruthyObj(p.children_status) \/ Val(p.children_status) = "has_children")

\* HasAllMustHaves with same_religion satisfied by an absent religion
HasAllMustHaves_AbsentReligionPasses(must_haves, p, u) ==
    /\ In("same_religion", must_haves)
          => ~(TruthyObj(p.religion) /\ p.religion # u.religion)
    /\ In("same_education", must_haves)
          => ~(~TruthyObj(p.education_level) \/ p.education_level # u.education_level)
    /\ In("no_children", must_haves)
          => ~(TruthyObj(p.children_status) /\ Val(p.children_status) = "has_children")

HasAllMustHaves(must_haves, p, u) ==
    /\ In("same_religion", must_haves)
          => ~(~TruthyObj(p.religion) \/ p.religion # u.religion)
    /\ In("same_education", must_haves)
          => ~(~TruthyObj(p.education_level) \/ p.education_level # u.education_level)
    /\ In("no_children", must_haves)
          => ~(TruthyObj(p.children_status) /\ Val(p.children_status) = "has_children")

\* PassesFilters without the gender preference rule
PassesFilters_NoGenderRule(u, p) ==
    /\ ~(/\ TruthyNum(u.preferred_age_min) /\ TruthyNum(p.age)
         /\ Val(p.age) < Val(u.preferred_age_min))
    /\ ~(/\ TruthyNum(u.preferred_age_max) /\ TruthyNum(p.age)
         /\ Val(p.age) > Val(u.preferred_age_max))
    /\ ~(/\ TruthyNum(u.max_distance_km) /\ TruthyNum(u.latitude) /\ TruthyNum(p.latitude)
         /\ RGt(CalculateDistance(Val(u.latitude), Val(u.longitude),
                                  Val(p.latitude), Val(p.longitude)),
                FromInt(Val(u.max_distance_km))))
    /\ ~(/\ TruthySeq(u.deal_breakers)
         /\ HasDealBreaker(Val(u.deal_breakers), p))
    /\ ~(/\ TruthySeq(u.must_haves)
         /\ ~HasAllMustHaves(Val(u.must_haves), p, u))

\* one iteration of the loop of _apply_filters: TRUE when p is appended
PassesFilters(u, p) ==
    /\ ~(/\ TruthyNum(u.preferred_age_min) /\ TruthyNum(p.age)
         /\ Val(p.age) < Val(u.preferred_age_min))
    /\ ~(/\ TruthyNum(u.preferred_age_max) /\ TruthyNum(p.age)
         /\ Val(p.age) > Val(u.preferred_age_max))
    /\ ~(/\ TruthyNum(u.max_distance_km) /\ TruthyNum(u.latitude) /\ TruthyNum(p.latitude)
         /\ RGt(CalculateDistance(Val(u.latitude), Val(u.longitude),
                                  Val(p.latitude), Val(p.longitude)),
                FromInt(Val(u.max_distance_km))))
    /\ ~(/\ TruthySeq(u.preferred_genders)
         /\ TruthyObj(p.gender) /\ ~In(Val(p.gender), Val(u.preferred_genders)))
    /\ ~(/\ TruthySeq(u.deal_breakers)
         /\ HasDealBreaker(Val(u.deal_breakers), p))
    /\ ~(/\ TruthySeq(u.must_haves)
         /\ ~HasAllMustHaves(Val(u.must_haves), p, u))

ApplyFiltersList(u, ps) ==
    LET Keep(p) == PassesFilters(u, p)
    IN  SelectSeq(ps, Keep)

----------------------------------------------------------------------------
(* Profiles                                                                *)

\* A Profile row with the attributes the engine reads, all optional ones
\* absent (the column defaults of app/models/profile.py).
EmptyProfile ==
    [id |-> 0, is_discoverable |-> TRUE,
     age |-> None, gender |-> None, latitude |-> None, longitude |-> None,
     relationship_type_seeking |-> None,
     education_level |-> None, field_of_study |-> None,
     drinking_habit |-> None, smoking_habit |-> None,
     children_status |-> None, religion |-> None, values |-> None,
     personality_type |-> None, lifestyle_preference |-> None, hobbies |-> None,
     preferred_age_min |-> None, preferred_age_max |-> None,
     preferred_genders |-> None, preferred_relationship_types |-> None,
     max_distance_km |-> None, deal_breakers |-> None, must_haves |-> None,
     profile_completion_percentage |-> Some(0), last_active_at |-> None,
     is_verified |-> FALSE, match_score_weight_preferences |-> None]

\* the attribute groups the seven dimensions read, each at three levels:
\* absent, equal to FullProfile, and as far from FullProfile as the
\* dimension goes
AgeAbsent == [age |-> None]
AgeSame == [age |-> Some(30)]
AgeFar == [age |-> Some(45)]

CoordAbsent == [latitude |-> None, longitude |-> None]
CoordHome == [latitude |-> Some(3), longitude |-> Some(1800)]
CoordEquator == [latitude |-> Some(0), longitude |-> Some(1800)]
CoordFar == [latitude |-> Some(120), longitude |-> Some(1800)]
CoordAny == [latitude : {Some(x) : x \in Lats}, longitude : {Some(x) : x \in Lons}]

HobbiesAbsent == [hobbies |-> None]
HobbiesSame == [hobbies |-> Some(<<"hiking", "reading">>)]
HobbiesDisjoint == [hobbies |-> Some(<<"cooking">>)]

ValuesAbsent == [religion |-> None, children_status |-> None, values |-> None]
ValuesSame == [religion |-> Some("christianity"), children_status |-> Some("no_children"),
               values |-> Some(<<"family">>)]
ValuesFar == [religion |-> Some("islam"), children_status |-> Some("has_children"),
              values |-> Some(<<"career">>)]

LifestyleAbsent == [drinking_habit |-> None, smoking_habit |-> None,
                    lifestyle_preference |-> None]
LifestyleSame == [drinking_habit |-> Some("social_drinker"), smoking_habit |-> Some("never"),
                  lifestyle_preference |-> Some("balanced")]
LifestyleFar == [drinking_habit |-> Some("heavily"), smoking_habit |-> Some("regularly"),
                 lifestyle_preference |-> Some("night_owl")]

PersonalityAbsent == [personality_type |-> None]
PersonalitySame == [personality_type |-> Some("introvert")]
PersonalityOther == [personality_type |-> Some("extrovert")]

BackgroundAbsent == [education_level |-> None, field_of_study |-> None]
BackgroundSame == [education_level |-> Some("bachelors"),
                   field_of_study |-> Some(<<"L", "a", "w">>)]
BackgroundFar == [education_level |-> Some("masters"),
                  field_of_study |-> Some(<<"a", "r", "t">>)]

\* every attribute present
FullProfile ==
    AgeSame @@ CoordHome @@ HobbiesSame @@ ValuesSame @@ LifestyleSame
    @@ PersonalitySame @@ BackgroundSame @@ EmptyProfile

\* every attribute present and as far from FullProfile as it goes
FarProfile ==
    AgeFar @@ CoordFar @@ HobbiesDisjoint @@ ValuesFar @@ LifestyleFar
    @@ PersonalityOther @@ BackgroundFar @@ EmptyProfile

Templates == {EmptyProfile, FullProfile, FarProfile}

\* the levels of the groups in every combination
CornerProfiles ==
    { a @@ c @@ h @@ v @@ l @@ p @@ b @@ EmptyProfile :
        a \in {AgeAbsent, AgeSame, AgeFar},
        c \in {CoordAbsent, CoordHome, CoordEquator, CoordFar},
        h \in {HobbiesAbsent, HobbiesSame, HobbiesDisjoint},
        v \in {ValuesAbsent, ValuesSame, ValuesFar},
        l \in {LifestyleAbsent, LifestyleSame, LifestyleFar},
        p \in {PersonalityAbsent, PersonalitySame, PersonalityOther},
        b \in {BackgroundAbsent, BackgroundSame, BackgroundFar} }

\* one group in detail
AgeDetail == [age : {Some(x) : x \in {0, 20, 25, 28, 29, 31, 40, 41}}]
HobbiesDetail ==
    [hobbies : {Some(x) : x \in {<<>>, <<"hiking">>, <<"reading", "hiking", "hiking">>,
                                 <<"hiking", "cooking">>,
                                 <<"cooking", "hiking", "reading">>}}]
ValuesDetail ==
    [religion : {None, Some("christianity"), Some("islam")},
     children_status : {None, Some("no_children"), Some("has_children")},
     values : {None, Some(<<>>), Some(<<"family">>), Some(<<"career">>),
               Some(<<"family", "career">>)}]
LifestyleDetail ==
    [drinking_habit : {None} \cup {Some(x) : x \in {"never", "occasionally", "social_drinker",
                                                    "regularly", "heavily",
                                                    "prefer_not_to_say"}},
     smoking_habit : {None} \cup {Some(x) : x \in {"never", "occasionally", "regularly",
                                                   "quit"}},
     lifestyle_preference : {None, Some("balanced"), Some("night_owl")}]
BackgroundDetail ==
    [education_level : {None, Some("bachelors"), Some("masters")},
     field_of_study : {None, Some(<<>>), Some(<<"L", "a", "w">>), Some(<<"l", "A", "W">>),
                       Some(<<"a", "r", "t">>)}]

Details ==
    AgeDetail \cup CoordAny \cup HobbiesDetail \cup ValuesDetail
    \cup LifestyleDetail \cup BackgroundDetail

\* a template with one group replaced
DetailProfiles == {d @@ t : d \in Details, t \in Templates}

----------------------------------------------------------------------------
(* Pure-function harness: the scorer                                       *)

\* weight overrides: a mapping from dimension name to a non-negative multiplier
AllWeights(w) == [d \in Range(Dimensions) |-> w]
WeightOptions ==
    {None,
     Some(AllWeights(FromInt(2))),
     Some(AllWeights(Zero)),
     Some([interests |-> FromInt(3), age |-> Rat(1, 2), personality |-> Zero])}

\* the attributes of the same-age, same-place, same-hobbies scenario and nothing else
ScenarioOnly ==
    AgeSame @@ HobbiesSame
    @@ [religion |-> Some("christianity"), children_status |-> Some("no_children")]
    @@ EmptyProfile

\* the scenario's attributes with the remaining attributes in every combination
ScenarioProfiles ==
    { c @@ v @@ l @@ p @@ b @@ ScenarioOnly :
        c \in {CoordHome, CoordEquator, [latitude |-> Some(3), longitude |-> Some(0)]},
        v \in {[values |-> None], [values |-> Some(<<"family">>)],
               [values |-> Some(<<"career">>)]},
        l \in {LifestyleAbsent, LifestyleSame, LifestyleFar},
        p \in {PersonalityAbsent, PersonalitySame, PersonalityOther},
        b \in {BackgroundAbsent, BackgroundSame, BackgroundFar} }

ScoreSeekers ==
    { w @@ FullProfile :
        w \in [max_distance_km : {None}, match_score_weight_preferences : WeightOptions]
              \cup [max_distance_km : {Some(10), Some(20)},
                    match_score_weight_preferences : {None}] }
    \cup
    { w @@ c @@ FullProfile :
        c \in {CoordEquator, [latitude |-> Some(3), longitude |-> Some(0)], CoordAbsent},
        w \in [max_distance_km : {None, Some(10)}] }
    \cup
    { w @@ EmptyProfile :
        w \in [match_score_weight_preferences : WeightOptions] }
    \cup
    { c @@ ScenarioOnly :
        c \in {CoordHome, CoordEquator, [latitude |-> Some(3), longitude |-> Some(0)]} }

ScoreCandidates == CornerProfiles \cup DetailProfiles \cup ScenarioProfiles

\* the find_matches variables, untouched by the harness
CallsIdle ==
    /\ profiles = <<>>
    /\ now = 0
    /\ pc = <<>>
    /\ args = <<>>
    /\ all_profiles = <<>>
    /\ filtered = <<>>
    /\ matches = <<>>
    /\ called_at = <<>>
    /\ result = <<>>

InitScore ==
    /\ user_profile \in ScoreSeekers
    /\ match_profile \in ScoreCandidates
    /\ fn_pc = "input"
    /\ fn_out = <<>>
    /\ CallsIdle

\* score = self._calculate_compatibility_score(user_profile, profile)
Score ==
    /\ fn_pc = "input"
    /\ fn_pc' = "scored"
    /\ fn_out' = [score |-> CalculateCompatibilityScore(user_profile, match_profile),
                  sub |-> SubScores(user_profile, match_profile)]
    /\ UNCHANGED <<user_profile, match_profile, call_vars>>

NextScore == Score

SpecScore == InitScore /\ [][NextScore]_vars

----------------------------------------------------------------------------
(* Pure-function harness: the sub-scores of a pair in both directions      *)

PairAges == [age : {None} \cup {Some(x) : x \in {0, 18, 20, 22, 25, 26, 30, 31, 41}}]

PairHobbies ==
    [hobbies : {None} \cup
               {Some(x) : x \in {<<>>, <<"hiking">>, <<"hiking", "reading">>,
                                 <<"reading", "hiking", "hiking">>,
                                 <<"hiking", "cooking">>, <<"cooking">>,
                                 <<"cooking", "hiking", "reading">>}}]

PairCoords == {CoordAbsent} \cup CoordAny

\* max_distance_km of the seeker: unset, 0, and caps on both sides of the
\* distances of the table
PairCaps == [max_distance_km : {None, Some(0), Some(10), Some(20), Some(30), Some(150)}]

\* two profiles that differ from the empty profile in one attribute group;
\* each of the two is the seeker of one direction
SubPairs ==
    { <<a @@ EmptyProfile, b @@ EmptyProfile>> : a \in PairAges, b \in PairAges }
    \cup
    { <<a @@ EmptyProfile, b @@ EmptyProfile>> : a \in PairHobbies, b \in PairHobbies }
    \cup
    { <<w @@ a @@ EmptyProfile, b @@ EmptyProfile>> :
        w \in PairCaps, a \in PairCoords, b \in PairCoords }
    \cup
    { <<a @@ EmptyProfile, b @@ EmptyProfile>> :
        a \in LifestyleDetail, b \in LifestyleDetail }

InitSub ==
    /\ \E pair \in SubPairs :
        /\ user_profile = pair[1]
        /\ match_profile = pair[2]
    /\ fn_pc = "input"
    /\ fn_out = <<>>
    /\ CallsIdle

\* the sub-score calls of _calculate_compatibility_score, for user_profile
\* as the seeker of match_profile and for match_profile as the seeker of
\* user_profile
ScoreBothWays ==
    /\ fn_pc = "input"
    /\ fn_pc' = "scored"
    /\ fn_out' = [forward |-> SubScores(user_profile, match_profile),
                  backward |-> SubScores(match_profile, user_profile)]
    /\ UNCHANGED <<user_profile, match_profile, call_vars>>

NextSub == ScoreBothWays

SpecSub == InitSub /\ [][NextSub]_vars

----------------------------------------------------------------------------
(* Pure-function harness: the hard filter                                  *)

DealBreakerOptions ==
    {None, Some(<<"smoking">>), Some(<<"no_kids">>), Some(<<"drinking">>),
     Some(<<"smoking", "no_kids", "drinking">>)}

MustHaveOptions ==
    {None, Some(<<"same_religion">>), Some(<<"same_education">>), Some(<<"no_children">>),
     Some(<<"same_religion", "same_education", "no_children">>)}

\* the seeker's stated preferences
Preferences ==
    [deal_breakers : DealBreakerOptions, must_haves : MustHaveOptions,
     preferred_genders : {None, Some(<<"female">>)},
     max_distance_km : {None, Some(10)},
     preferred_age_min : {None}, preferred_age_max : {None},
     preferred_relationship_types : {None}]
    \cup
    [deal_breakers : {None}, must_haves : {None},
     preferred_genders : {None, Some(<<>>), Some(<<"female">>), Some(<<"female", "male">>)},
     max_distance_km : {None, Some(0), Some(10), Some(20)},
     preferred_age_min : {None, Some(25)}, preferred_age_max : {None, Some(35)},
     preferred_relationship_types : {None, Some(<<"marriage">>)}]

FilterSeekers ==
    {f @@ t : f \in Preferences, t \in {FullProfile, CoordEquator @@ FullProfile, EmptyProfile}}

\* the attributes the filter reads, one at a time
FilterDetails ==
    [age : {None} \cup {Some(x) : x \in {0, 24, 25, 35, 36}}]
    \cup CoordAny
    \cup [gender : {Some("male"), Some("female"), Some("non_binary")}]
    \cup [relationship_type_seeking : {Some("marriage"), Some("casual_dating")}]
    \cup [smoking_habit : {None} \cup {Some(x) : x \in {"never", "occasionally", "regularly",
                                                        "quit", "prefer_not_to_say"}}]
    \cup [drinking_habit : {None} \cup {Some(x) : x \in {"never", "occasionally",
                                                         "social_drinker", "regularly",
                                                         "heavily", "prefer_not_to_say"}}]
    \cup [children_status : {None, Some("no_children"), Some("has_children"),
                             Some("wants_children")}]
    \cup [religion : {None, Some("christianity"), Some("islam")}]
    \cup [education_level : {None, Some("bachelors"), Some("masters")}]

FilterCandidates == {d @@ t : d \in FilterDetails, t \in Templates}

InitFilter ==
    /\ user_profile \in FilterSeekers
    /\ match_profile \in FilterCandidates
    /\ fn_pc = "input"
    /\ fn_out = <<>>
    /\ CallsIdle

\* filtered = await self._apply_filters(user_profile, [profile])
Filter ==
    /\ fn_pc = "input"
    /\ fn_pc' = "filtered"
    /\ fn_out' = [filtered |-> ApplyFiltersList(user_profile, <<match_profile>>)]
    /\ UNCHANGED <<user_profile, match_profile, call_vars>>

NextFilter == Filter

SpecFilter == InitFilter /\ [][NextFilter]_vars

----------------------------------------------------------------------------
(* The hard filter followed by the scorer, on one candidate                *)

\* a seeker with a max-distance preference and a candidate, both with or
\* without coordinates
DistancePairs ==
    { <<w @@ a @@ FullProfile, b @@ FullProfile>> :
        w \in PairCaps, a \in PairCoords, b \in PairCoords }

InitDistance ==
    /\ \E pair \in DistancePairs :
        /\ user_profile = pair[1]
        /\ match_profile = pair[2]
    /\ fn_pc = "input"
    /\ fn_out = <<>>
    /\ CallsIdle

\* steps 2 and 3 of find_matches on the pool [match_profile]: the hard
\* filter, then one scored entry per survivor; distance_score is the local
\* variable of _calculate_compatibility_score for each entry
FilterThenScore ==
    /\ fn_pc = "input"
    /\ fn_pc' = "matched"
    /\ LET kept == ApplyFiltersList(user_profile, <<match_profile>>)
       IN  fn_out' =
             [filtered |-> kept,
              matches |-> [i \in DOMAIN kept |->
                             LET score == CalculateCompatibilityScore(user_profile, kept[i])
                             IN  [profile |-> kept[i], score |-> score,
                                  match_percentage |-> Round2(score)]],
              distance_score |-> [i \in DOMAIN kept |-> ScoreDistance(user_profile, kept[i])]]
    /\ UNCHANGED <<user_profile, match_profile, call_vars>>

NextDistance == FilterThenScore

SpecDistance == InitDistance /\ [][NextDistance]_vars

----------------------------------------------------------------------------
(* The hard filter on a pool, before and after the seeker adds a           *)
(* deal-breaker to the profile                                             *)

MaxPool == 2
MaxDealBreakers == 2

\* the tags a seeker may add; "pets" is a tag no rule reads
Tags == {"smoking", "no_kids", "drinking", "pets"}

PoolSeekers ==
    {[id |-> 1, deal_breakers |-> d] @@ FullProfile :
        d \in {None, Some(<<>>), Some(<<"smoking">>), Some(<<"no_kids">>),
               Some(<<"drinking">>)}}

PoolKinds ==
    {FullProfile, EmptyProfile, FarProfile,
     [smoking_habit |-> Some("occasionally")] @@ FullProfile,
     [children_status |-> Some("has_children")] @@ FullProfile,
     [drinking_habit |-> Some("regularly")] @@ FullProfile}

\* candidate lists of up to MaxPool profiles with ids 2, 3, ...
Pools ==
    UNION { { [k \in 1..n |-> [id |-> k + 1] @@ rows[k]] :
                rows \in [1..n -> PoolKinds] } : n \in 0..MaxPool }

InitPool ==
    /\ user_profile \in PoolSeekers
    /\ profiles \in Pools
    /\ match_profile = EmptyProfile
    /\ fn_pc = "input"
    /\ fn_out = <<>>
    /\ now = 0
    /\ pc = <<>>
    /\ args = <<>>
    /\ all_profiles = <<>>
    /\ filtered = <<>>
    /\ matches = <<>>
    /\ called_at = <<>>
    /\ result = <<>>

\* filtered = await self._apply_filters(user_profile, profiles); the output
\* of the run before the seeker's last change is kept for comparison
FilterPool ==
    /\ fn_pc \in {"input", "added"}
    /\ fn_pc' = "filtered"
    /\ fn_out' = [filtered |-> ApplyFiltersList(user_profile, profiles),
                  before |-> IF fn_pc = "added" THEN Some(fn_out.filtered) ELSE None]
    /\ UNCHANGED <<user_profile, match_profile, call_vars>>

\* the seeker stores a deal-breaker list with one more tag
AddDealBreaker(tag) ==
    /\ fn_pc = "filtered"
    /\ Len(OrEmpty(user_profile.deal_breakers)) < MaxDealBreakers
    /\ user_profile' =
          [user_profile EXCEPT !.deal_breakers = Some(OrEmpty(@) \o <<tag>>)]
    /\ fn_pc' = "added"
    /\ UNCHANGED <<match_profile, fn_out, call_vars>>

NextPool ==
    \/ FilterPool
    \/ \E tag \in Tags : AddDealBreaker(tag)

SpecPool == InitPool /\ [][NextPool]_vars

----------------------------------------------------------------------------
(* Boosts, ranking and pagination                                          *)

\* BoostedScore with the recency brackets adding up instead of excluding each other
BoostedScore_RecencyStacks(match, clock) ==
    LET profile == match.profile
        base_score == match.score
        hours_ago == Rat(clock - Val(profile.last_active_at), 2)
        recency == IF ~TruthyObj(profile.last_active_at) THEN 0
                   ELSE (IF RLt(hours_ago, FromInt(1)) THEN 5 ELSE 0)
                        + (IF RLt(hours_ago, FromInt(24)) THEN 3 ELSE 0)
                        + (IF RLt(hours_ago, FromInt(168)) THEN 1 ELSE 0)
        completion == IF ~TruthyNum(profile.profile_completion_percentage) THEN 0
                      ELSE IF Val(profile.profile_completion_percentage) >= 90 THEN 3
                      ELSE IF Val(profile.profile_completion_percentage) >= 70 THEN 1
                      ELSE 0
        verified == IF profile.is_verified THEN 2 ELSE 0
    IN  RMin(FromInt(100), RAdd(base_score, FromInt(recency + completion + verified)))

\* _apply_boosts on one entry, the clock reading clock
BoostedScore(match, clock) ==
    LET profile == match.profile
        base_score == match.score
        hours_ago == Rat(clock - Val(profile.last_active_at), 2)
        recency == IF ~TruthyObj(profile.last_active_at) THEN 0
                   ELSE IF RLt(hours_ago, FromInt(1)) THEN 5
                   ELSE IF RLt(hours_ago, FromInt(24)) THEN 3
                   ELSE IF RLt(hours_ago, FromInt(168)) THEN 1
                   ELSE 0
        completion == IF ~TruthyNum(profile.profile_completion_percentage) THEN 0
                      ELSE IF Val(profile.profile_completion_percentage) >= 90 THEN 3
                      ELSE IF Val(profile.profile_completion_percentage) >= 70 THEN 1
                      ELSE 0
        verified == IF profile.is_verified THEN 2 ELSE 0
    IN  RMin(FromInt(100), RAdd(base_score, FromInt(recency + completion + verified)))

\* the loop of _apply_boosts: every entry's "score" overwritten in place
BoostAll(ms, clock) ==
    [k \in DOMAIN ms |-> [ms[k] EXCEPT !.score = BoostedScore(ms[k], clock)]]

\* InsertDesc placing x ahead of the entries of the same score
InsertDesc_AheadOfEquals(sorted, x) ==
    LET ahead == Cardinality({k \in DOMAIN sorted : RGt(sorted[k].score, x.score)})
    IN  SubSeq(sorted, 1, ahead) \o <<x>> \o SubSeq(sorted, ahead + 1, Len(sorted))

\* the list with x inserted behind every entry whose score is >= x.score
InsertDesc(sorted, x) ==
    LET ahead == Cardinality({k \in DOMAIN sorted : RGeq(sorted[k].score, x.score)})
    IN  SubSeq(sorted, 1, ahead) \o <<x>> \o SubSeq(sorted, ahead + 1, Len(sorted))

RECURSIVE SortedPrefix(_, _)
\* sorted(ms[:k], key=score, reverse=True): stable, equal scores keep their order
SortedPrefix(ms, k) ==
    IF k = 0 THEN <<>> ELSE InsertDesc(SortedPrefix(ms, k - 1), ms[k])

SortedByScoreDesc(ms) == SortedPrefix(ms, Len(ms))

\* a slice bound as list slicing reads it: negative counts from the end, then clamped
SliceIndex(i, n) ==
    IF i < 0 THEN (IF n + i < 0 THEN 0 ELSE n + i)
    ELSE (IF i > n THEN n ELSE i)

\* s[start:stop]
Slice(s, start, stop) ==
    SubSeq(s, SliceIndex(start, Len(s)) + 1, SliceIndex(stop, Len(s)))

\* RankedPage without the sort
RankedPage_Unsorted(ms, limit, offset) ==
    Slice(ms, offset, offset + limit)

\* RankedPage returning everything from offset on
RankedPage_NoLimit(ms, limit, offset) ==
    Slice(SortedByScoreDesc(ms), offset, Len(ms))

\* RankedPage sorting the page after it was cut from the unsorted list
RankedPage_SortsThePage(ms, limit, offset) ==
    SortedByScoreDesc(Slice(ms, offset, offset + limit))

\* ranked = sorted(ms, key=score, reverse=True); return ranked[offset:offset + limit]
RankedPage(ms, limit, offset) ==
    Slice(SortedByScoreDesc(ms), offset, offset + limit)

----------------------------------------------------------------------------
(* Pure-function harness: the boosts                                       *)

\* clock readings and last-active times, in half hours: around the brackets
\* of 1 hour, 24 hours and 168 hours, and one last-active time ahead of the clock
BoostClocks == {0, 1}
BoostLastActive ==
    {None} \cup {Some(t) : t \in {1, 0, -1, -2, -46, -47, -48, -335, -336, -400}}
BoostCompletion == {None} \cup {Some(c) : c \in {0, 69, 70, 89, 90, 95, 100}}

\* raw scores the scorer returns: every weight 0, empty profiles, the scenario
\* with the rest absent, 90, a full match, 100, a full match with every weight 2
BoostRawScores ==
    {Zero, FromInt(50), Rat(175, 2), FromInt(90), Rat(387, 4), FromInt(100), Rat(387, 2)}

BoostEntries ==
    { [profile |-> [last_active_at |-> l, profile_completion_percentage |-> c,
                    is_verified |-> v] @@ [id |-> 2] @@ EmptyProfile,
       score |-> s, match_percentage |-> Round2(s)] :
        l \in BoostLastActive, c \in BoostCompletion, v \in BOOLEAN, s \in BoostRawScores }

InitBoost ==
    /\ user_profile = [id |-> 1] @@ EmptyProfile
    /\ match_profile = EmptyProfile
    /\ matches \in {<<e>> : e \in BoostEntries}
    /\ now \in BoostClocks
    /\ fn_pc = "input"
    /\ fn_out = <<>>
    /\ profiles = <<>>
    /\ pc = <<>>
    /\ args = <<>>
    /\ all_profiles = <<>>
    /\ filtered = <<>>
    /\ called_at = <<>>
    /\ result = <<>>

\* boosted_matches = self._apply_boosts(user_profile, matches): the entries are
\* overwritten in place; the scores they held before are kept for comparison
Boost ==
    /\ fn_pc = "input"
    /\ fn_pc' = "boosted"
    /\ matches' = BoostAll(matches, now)
    /\ fn_out' = [raw |-> [k \in DOMAIN matches |-> matches[k].score]]
    /\ UNCHANGED <<user_profile, match_profile, profiles, now, pc, args, all_profiles,
                   filtered, called_at, result>>

NextBoost == Boost

SpecBoost == InitBoost /\ [][NextBoost]_vars

----------------------------------------------------------------------------
(* Pure-function harness: ranking and pagination                           *)

MaxRanked == 3
MaxLimit == 3
MaxOffset == 4

\* final scores of the entries handed to the sort
PageScores == {FromInt(50), Rat(195, 2), FromInt(100)}

\* boosted lists of up to MaxRanked entries, the profiles with ids 2, 3, ...
PageLists ==
    UNION { { [k \in 1..n |-> [profile |-> [id |-> k + 1] @@ EmptyProfile,
                               score |-> sc[k], match_percentage |-> Round2(sc[k])]] :
                sc \in [1..n -> PageScores] } : n \in 0..MaxRanked }

\* limit: int, offset: int of find_matches
PageArgs == [limit : 1..MaxLimit, offset : (-MaxOffset)..MaxOffset]

InitPage ==
    /\ user_profile = [id |-> 1] @@ EmptyProfile
    /\ match_profile = EmptyProfile
    /\ matches \in PageLists
    /\ args \in PageArgs
    /\ fn_pc = "input"
    /\ fn_out = <<>>
    /\ profiles = <<>>
    /\ now = 0
    /\ pc = <<>>
    /\ all_profiles = <<>>
    /\ filtered = <<>>
    /\ called_at = <<>>
    /\ result = <<>>

\* steps 5 and 6 of find_matches on the boosted list
Page ==
    /\ fn_pc = "input"
    /\ fn_pc' = "paged"
    /\ fn_out' = [page |-> RankedPage(matches, args.limit, args.offset)]
    /\ UNCHANGED <<user_profile, match_profile, call_vars>>

NextPage == Page

SpecPage == InitPage /\ [][NextPage]_vars

----------------------------------------------------------------------------
(* find_matches                                                            *)

MaxNow == 2

Calls == {1, 2}

\* positions of a find_matches coroutine.  "get" is suspended in the await of
\* db.execute; the positions of RunningPcs lie between two awaits, where the
\* event loop runs nothing else.
RunningPcs == {"filter", "score", "boost", "rank"}

LoopFree == \A c \in Calls : pc[c] \notin RunningPcs

\* seekers find_matches is called for
CallSeekers ==
    {[id |-> 1] @@ FullProfile,
     [id |-> 1, match_score_weight_preferences |-> Some(AllWeights(FromInt(2)))]
        @@ FullProfile,
     [id |-> 1, deal_breakers |-> Some(<<"smoking">>), max_distance_km |-> Some(10)]
        @@ FullProfile}

\* the kinds of rows the table holds beside the seeker's
RowKinds ==
    {[last_active_at |-> Some(0), profile_completion_percentage |-> Some(95),
      is_verified |-> TRUE] @@ FullProfile,
     [last_active_at |-> Some(-46), profile_completion_percentage |-> Some(70),
      is_verified |-> TRUE] @@ FarProfile,
     [last_active_at |-> Some(-335), profile_completion_percentage |-> Some(90)]
        @@ EmptyProfile,
     [is_discoverable |-> FALSE] @@ FullProfile}

\* tables: the seeker's row, then up to MaxPool rows with ids 2, 3, ...
Tables(seeker) ==
    UNION { { <<seeker>> \o [k \in 1..n |-> [id |-> k + 1] @@ rows[k]] :
                rows \in [1..n -> RowKinds] } : n \in 0..MaxPool }

Args ==
    {[limit |-> 1, offset |-> 0], [limit |-> 2, offset |-> 0],
     [limit |-> 1, offset |-> 1], [limit |-> 2, offset |-> 3]}

Init ==
    /\ user_profile \in CallSeekers
    /\ profiles \in Tables(user_profile)
    /\ match_profile = EmptyProfile
    /\ fn_pc = "calls"
    /\ fn_out = <<>>
    /\ now = 1
    /\ pc = [c \in Calls |-> "idle"]
    /\ args = [c \in Calls |-> <<>>]
    /\ all_profiles = [c \in Calls |-> <<>>]
    /\ filtered = [c \in Calls |-> <<>>]
    /\ matches = [c \in Calls |-> <<>>]
    /\ called_at = [c \in Calls |-> 0]
    /\ result = [c \in Calls |-> <<>>]

\* find_matches(user_profile, limit, offset) is called and runs to the await
\* of the query; the calls are numbered in the order they are made
FindMatches(c, a) ==
    /\ pc[c] = "idle"
    /\ \A d \in Calls : d < c => pc[d] # "idle"
    /\ LoopFree
    /\ args' = [args EXCEPT ![c] = a]
    /\ pc' = [pc EXCEPT ![c] = "get"]
    /\ UNCHANGED <<fn_vars, profiles, now, all_profiles, filtered, matches,
                   called_at, result>>

\* step 1: the query returns the discoverable rows other than the seeker's
GetPotentialProfiles(c) ==
    /\ pc[c] = "get"
    /\ LoopFree
    /\ LET Potential(p) == p.id # user_profile.id /\ p.is_discoverable = TRUE
       IN  all_profiles' = [all_profiles EXCEPT ![c] = SelectSeq(profiles, Potential)]
    /\ pc' = [pc EXCEPT ![c] = "filter"]
    /\ UNCHANGED <<fn_vars, profiles, now, args, filtered, matches, called_at, result>>

\* step 2: hard filters
ApplyFilters(c) ==
    /\ pc[c] = "filter"
    /\ filtered' = [filtered EXCEPT ![c] = ApplyFiltersList(user_profile, all_profiles[c])]
    /\ pc' = [pc EXCEPT ![c] = "score"]
    /\ UNCHANGED <<fn_vars, profiles, now, args, all_profiles, matches, called_at, result>>

\* ScoreMatches scoring every profile the query returned
ScoreMatches_AllProfiles(c) ==
    /\ pc[c] = "score"
    /\ matches' = [matches EXCEPT ![c] =
          [k \in DOMAIN all_profiles[c] |->
              LET score == CalculateCompatibilityScore(user_profile, all_profiles[c][k])
              IN  [profile |-> all_profiles[c][k], score |-> score,
                   match_percentage |-> Round2(score)]]]
    /\ pc' = [pc EXCEPT ![c] = "boost"]
    /\ UNCHANGED <<fn_vars, profiles, now, args, all_profiles, filtered, called_at, result>>

\* step 3: one entry per survivor
ScoreMatches(c) ==
    /\ pc[c] = "score"
    /\ matches' = [matches EXCEPT ![c] =
          [k \in DOMAIN filtered[c] |->
              LET score == CalculateCompatibilityScore(user_profile, filtered[c][k])
              IN  [profile |-> filtered[c][k], score |-> score,
                   match_percentage |-> Round2(score)]]]
    /\ pc' = [pc EXCEPT ![c] = "boost"]
    /\ UNCHANGED <<fn_vars, profiles, now, args, all_profiles, filtered, called_at, result>>

\* ApplyBoosts on a list that all calls share
ApplyBoosts_SharedList(c) ==
    /\ pc[c] = "boost"
    /\ matches' = [d \in Calls |-> BoostAll(matches[c], now)]
    /\ called_at' = [called_at EXCEPT ![c] = now]
    /\ pc' = [pc EXCEPT ![c] = "rank"]
    /\ UNCHANGED <<fn_vars, profiles, now, args, all_profiles, filtered, result>>

\* ApplyBoosts stamping the boosted profiles with the time of the call
ApplyBoosts_TouchesLastActive(c) ==
    /\ pc[c] = "boost"
    /\ matches' = [matches EXCEPT ![c] = BoostAll(matches[c], now)]
    /\ LET Boosted(p) == \E k \in DOMAIN matches[c] : matches[c][k].profile.id = p.id
       IN  profiles' = [k \in DOMAIN profiles |->
                          IF Boosted(profiles[k])
                          THEN [profiles[k] EXCEPT !.last_active_at = Some(now)]
                          ELSE profiles[k]]
    /\ called_at' = [called_at EXCEPT ![c] = now]
    /\ pc' = [pc EXCEPT ![c] = "rank"]
    /\ UNCHANGED <<fn_vars, now, args, all_profiles, filtered, result>>

\* step 4: boosts, reading the clock
ApplyBoosts(c) ==
    /\ pc[c] = "boost"
    /\ matches' = [matches EXCEPT ![c] = BoostAll(matches[c], now)]
    /\ called_at' = [called_at EXCEPT ![c] = now]
    /\ pc' = [pc EXCEPT ![c] = "rank"]
    /\ UNCHANGED <<fn_vars, profiles, now, args, all_profiles, filtered, result>>

\* the orders of ms by descending score, entries of equal score in any order
DescendingOrders(ms) ==
    LET n == Len(ms)
        perms == {f \in [1..n -> 1..n] : \A i, j \in 1..n : i # j => f[i] # f[j]}
    IN  {[k \in 1..n |-> ms[f[k]]] : f \in
            {g \in perms : \A k \in 1..(n - 1) : RGeq(ms[g[k]].score, ms[g[k + 1]].score)}}

\* RankAndReturn with a sort that is not stable
RankAndReturn_AnyTieOrder(c) ==
    /\ pc[c] = "rank"
    /\ \E ranked \in DescendingOrders(matches[c]) :
          result' = [result EXCEPT ![c] =
              Slice(ranked, args[c].offset, args[c].offset + args[c].limit)]
    /\ pc' = [pc EXCEPT ![c] = "done"]
    /\ UNCHANGED <<fn_vars, profiles, now, args, all_profiles, filtered, matches, called_at>>

\* steps 5 and 6: sort by final score and return the page
RankAndReturn(c) ==
    /\ pc[c] = "rank"
    /\ result' = [result EXCEPT ![c] =
          RankedPage(matches[c], args[c].limit, args[c].offset)]
    /\ pc' = [pc EXCEPT ![c] = "done"]
    /\ UNCHANGED <<fn_vars, profiles, now, args, all_profiles, filtered, matches, called_at>>

\* _calculate_compatibility_score tabulated over the seekers and the kinds
\* of rows; the score does not read the id of a row
ScoreTable ==
    [u \in CallSeekers |-> [r \in RowKinds |-> CalculateCompatibilityScore(u, r)]]

\* steps 1 to 3 of find_matches run with nothing in between
ScoredMatchesAlone(seeker, table) ==
    LET Potential(p) == p.id # seeker.id /\ p.is_discoverable = TRUE
        potential == SelectSeq(table, Potential)
        kept == ApplyFiltersList(seeker, potential)
    IN  [k \in DOMAIN kept |->
            LET score == ScoreTable[seeker][[kept[k] EXCEPT !.id = 0]]
            IN  [profile |-> kept[k], score |-> score,
                 match_percentage |-> Round2(score)]]

\* find_matches run from its first line to its return with nothing in
\* between, on the entries scored, _apply_boosts reading the clock value clock
FindMatchesAlone(scored, a, clock) ==
    RankedPage(BoostAll(scored, clock), a.limit, a.offset)

\* half an hour passes
Tick ==
    /\ now < MaxNow
    /\ now' = now + 1
    /\ UNCHANGED <<fn_vars, profiles, pc, args, all_profiles, filtered, matches,
                   called_at, result>>

Next ==
    \/ \E c \in Calls, a \in Args : FindMatches(c, a)
    \/ \E c \in Calls : GetPotentialProfiles(c)
    \/ \E c \in Calls : ApplyFilters(c)
    \/ \E c \in Calls : ScoreMatches(c)
    \/ \E c \in Calls : ApplyBoosts(c)
    \/ \E c \in Calls : RankAndReturn(c)
    \/ Tick

Spec == Init /\ [][Next]_vars

\* the calls of the seeker without overrides on the tables of MaxPool rows
InitInterleaved ==
    /\ Init
    /\ user_profile = [id |-> 1] @@ FullProfile
    /\ Len(profiles) = MaxPool + 1

SpecInterleaved == InitInterleaved /\ [][Next]_vars

----------------------------------------------------------------------------
(* A client walking the pages of GET /matches, and GET /matches/count      *)

\* the seeker, the table and the clock reading stay as they are; the client
\* asks for pages of `limit` entries from offset 0 on
InitPaging ==
    /\ user_profile \in CallSeekers
    /\ profiles \in Tables(user_profile)
    /\ now \in 1..MaxNow
    /\ match_profile = EmptyProfile
    /\ fn_pc = "paging"
    /\ \E limit \in 1..MaxLimit :
          fn_out = [limit |-> limit, offset |-> 0, pages |-> <<>>,
                    total_matches |-> None]
    /\ pc = <<>>
    /\ args = <<>>
    /\ all_profiles = <<>>
    /\ filtered = <<>>
    /\ matches = <<>>
    /\ called_at = <<>>
    /\ result = <<>>

\* get_matches(limit, offset): one call of find_matches; the client asks for
\* the next offset until a page comes back empty
GetMatches ==
    /\ fn_pc = "paging"
    /\ LET page == FindMatchesAlone(ScoredMatchesAlone(user_profile, profiles),
                                    [limit |-> fn_out.limit, offset |-> fn_out.offset], now)
       IN  /\ fn_out' = [fn_out EXCEPT !.pages = Append(@, page),
                                       !.offset = @ + fn_out.limit]
           /\ fn_pc' = IF page = <<>> THEN "end" ELSE "paging"
    /\ UNCHANGED <<user_profile, match_profile, call_vars>>

\* get_match_count: the query and the hard filter, and the length of the result
GetMatchCount ==
    /\ fn_out.total_matches = None
    /\ LET Potential(p) == p.id # user_profile.id /\ p.is_discoverable = TRUE
           kept == ApplyFiltersList(user_profile, SelectSeq(profiles, Potential))
       IN  fn_out' = [fn_out EXCEPT !.total_matches = Some(Len(kept))]
    /\ UNCHANGED <<user_profile, match_profile, fn_pc, call_vars>>

NextPaging == GetMatches \/ GetMatchCount

SpecPaging == InitPaging /\ [][NextPaging]_vars

----------------------------------------------------------------------------
(* Properties of the scorer                                                *)

Scored == fn_pc = "scored"

\* the sum of point budget x weight over the first k dimensions
RECURSIVE WeightedBudget(_, _)
WeightedBudget(weights, k) ==
    IF k = 0 THEN Zero
    ELSE RAdd(WeightedBudget(weights, k - 1),
              RMul(FromInt(Budget[Dimensions[k]]), WeightGet(weights, Dimensions[k])))

\* C1: the compatibility score lies in [0,100] for every seeker, weight
\* overrides greater than 1 included.
C1_ScoreInRange ==
    Scored => RGeq(fn_out.score, Zero) /\ RLeq(fn_out.score, FromInt(100))

\* C2: the score is 100 x sum(value x budget x weight) / sum(budget x weight):
\* the divisor carries the weight overrides.
C2_ScoreIsWeightedAverage ==
    LET w == Weights(user_profile)
        n == Len(Dimensions)
    IN  (Scored /\ WeightedBudget(w, n) # Zero)
        => fn_out.score = RMul(RDiv(TotalScore(fn_out.sub, w, n), WeightedBudget(w, n)),
                               FromInt(100))

\* the scenario of C4: both aged 30, identical coordinates, hobby sets
\* {hiking, reading}, identical religion and children status, no overrides
Scenario ==
    /\ user_profile.age = Some(30) /\ match_profile.age = Some(30)
    /\ user_profile.latitude # None /\ user_profile.longitude # None
    /\ user_profile.latitude = match_profile.latitude
    /\ user_profile.longitude = match_profile.longitude
    /\ Range(OrEmpty(user_profile.hobbies)) = {"hiking", "reading"}
    /\ Range(OrEmpty(match_profile.hobbies)) = {"hiking", "reading"}
    /\ user_profile.religion # None /\ user_profile.religion = match_profile.religion
    /\ user_profile.children_status # None
    /\ user_profile.children_status = match_profile.children_status
    /\ Weights(user_profile) = <<>>

\* C4 as stated: in the scenario the raw score is at least 90.
C4_ScenarioAtLeast90 ==
    (Scored /\ Scenario) => RGeq(fn_out.score, FromInt(90))

\* C4 amended: in the scenario the raw score is at least 67.5, and at least
\* 75 when neither shared coordinate is 0.
C4_ScenarioLowerBound ==
    (Scored /\ Scenario)
    => /\ RGeq(fn_out.score, Rat(135, 2))
       /\ (Val(user_profile.latitude) # 0 /\ Val(user_profile.longitude) # 0)
             => RGeq(fn_out.score, FromInt(75))

\* the scenario scored below 90 with every remaining attribute absent on both sides
C4_Witness ==
    /\ Scored /\ Scenario
    /\ user_profile.values = None /\ match_profile.values = None
    /\ user_profile.personality_type = None /\ match_profile.personality_type = None
    /\ user_profile.drinking_habit = None /\ match_profile.drinking_habit = None
    /\ user_profile.education_level = None /\ match_profile.education_level = None
    /\ fn_out.score = Rat(175, 2)

\* C8: identical coordinates give a distance sub-score of exactly 1.0, for
\* every coordinate value and every max_distance.
C8_SamePlaceScoresOne ==
    (/\ Scored
     /\ user_profile.latitude # None /\ user_profile.longitude # None
     /\ user_profile.latitude = match_profile.latitude
     /\ user_profile.longitude = match_profile.longitude)
    => fn_out.sub.distance = One

\* a float: a ratio with a denominator that is not 0
IsNumber(x) == x[1] \in Int /\ x[2] \in Nat \ {0}

\* C20: the scorer never divides by zero and never fails: for all profiles,
\* absent optional fields and empty collections included, it returns a
\* number, every sub-score is a number of [0,1], and when every dimension's
\* weight override is 0 the score is 0.
C20_ScorerNeverFails ==
    Scored =>
      /\ IsNumber(fn_out.score)
      /\ \A d \in Range(Dimensions) :
            /\ IsNumber(fn_out.sub[d])
            /\ RGeq(fn_out.sub[d], Zero) /\ RLeq(fn_out.sub[d], One)
      /\ (\A d \in Range(Dimensions) :
              /\ d \in DOMAIN Weights(user_profile)
              /\ Weights(user_profile)[d] = Zero)
            => fn_out.score = Zero

\* a seeker with every weight override 0 and a candidate equal to the seeker:
\* the sub-scores are high and the score is 0
C20_Witness ==
    /\ Scored
    /\ user_profile.match_score_weight_preferences = Some(AllWeights(Zero))
    /\ user_profile.age = Some(30) /\ match_profile.age = Some(30)
    /\ fn_out.sub.age = One /\ fn_out.sub.interests = One
    /\ fn_out.score = Zero

\* C29: with no weight overrides the raw compatibility score lies in
\* [12.5, 98]: personality contributes at most 0.8 of its 10 points, and age
\* (>= 0.3), distance (>= 0.1) and personality (>= 0.5) have positive floors.
C29_RawScoreWithinFloorAndCeiling ==
    (Scored /\ user_profile.match_score_weight_preferences = None) =>
        /\ RGeq(fn_out.score, Rat(25, 2))
        /\ RLeq(fn_out.score, FromInt(98))
        /\ RLeq(fn_out.sub.personality, Rat(4, 5))
        /\ RGeq(fn_out.sub.personality, Rat(1, 2))
        /\ RGeq(fn_out.sub.age, Rat(3, 10))
        /\ RGeq(fn_out.sub.distance, Rat(1, 10))

\* the ceiling: every dimension but personality at its full mark
C29_Witness ==
    /\ Scored
    /\ user_profile.match_score_weight_preferences = None
    /\ fn_out.sub.personality = Rat(4, 5)
    /\ \A d \in Range(Dimensions) \ {"personality"} : fn_out.sub[d] = One
    /\ fn_out.score = FromInt(98)

\* the floor: age, distance and personality at their floors, the rest at 0
C29_FloorReached ==
    /\ Scored
    /\ user_profile.match_score_weight_preferences = None
    /\ fn_out.sub.age = Rat(3, 10)
    /\ fn_out.sub.distance = Rat(1, 10)
    /\ fn_out.sub.personality = Rat(1, 2)
    /\ fn_out.score = Rat(25, 2)

----------------------------------------------------------------------------
(* Properties of the sub-scores                                            *)

BothWays == fn_pc = "scored" /\ DOMAIN fn_out = {"forward", "backward"}

\* C21: the age sub-score of a pair is the same in both directions, whether
\* the ages are known or not.
C21_AgeScoreSymmetric ==
    BothWays => fn_out.forward.age = fn_out.backward.age

\* a pair of different known ages, the seeker the younger one
C21_Witness ==
    /\ BothWays
    /\ user_profile.age = Some(20)
    /\ match_profile.age = Some(31)
    /\ fn_out.forward.age = Rat(3, 10)
    /\ fn_out.backward.age = Rat(3, 10)

\* the distinct tags of a hobby list, None counting as the empty list
TagSet(hobbies) == IF hobbies = None THEN {} ELSE Range(Val(hobbies))

\* |A \cap B| / |A \cup B|
Jaccard(A, B) == Rat(Cardinality(A \cap B), Cardinality(A \cup B))

\* C22: the interests sub-score is 0.3 when either hobby list is empty and
\* otherwise the Jaccard similarity of the two tag sets, so 1.0 for equal
\* sets, 0.0 for disjoint sets and 0.3 for two empty lists.
C22_InterestsIsJaccard ==
    BothWays =>
        LET A == TagSet(user_profile.hobbies)
            B == TagSet(match_profile.hobbies)
            s == fn_out.forward.interests
        IN  /\ (A = {} \/ B = {}) => s = Rat(3, 10)
            /\ (A # {} /\ B # {}) => s = Jaccard(A, B)
            /\ (A # {} /\ A = B) => s = One
            /\ (A # {} /\ B # {} /\ A \cap B = {}) => s = Zero

\* a list with a duplicate against a list with one more tag
C22_Witness ==
    /\ BothWays
    /\ user_profile.hobbies = Some(<<"reading", "hiking", "hiking">>)
    /\ match_profile.hobbies = Some(<<"cooking", "hiking", "reading">>)
    /\ fn_out.forward.interests = Rat(2, 3)

\* the step rule of the distance sub-score for a distance in kilometres and
\* a maximum distance
StepRule(distance_km, max_distance) ==
    LET ratio == RDiv(distance_km, FromInt(max_distance))
    IN  IF distance_km = Zero THEN One
        ELSE IF RGeq(ratio, One) THEN Rat(1, 10)
        ELSE IF RGeq(ratio, Rat(1, 2)) THEN Rat(1, 2)
        ELSE RSub(One, RMul(ratio, Rat(1, 2)))

HasCoordinates(p) == p.latitude # None /\ p.longitude # None

\* C24: when both profiles have coordinates the distance sub-score follows
\* the step rule on distance / max_distance, max_distance being the seeker's
\* preference or 100 km when unset; when coordinates are missing on either
\* side it is 0.5.  (Stated for an unset or positive preference.)
C24_DistanceStepRule ==
    BothWays =>
        LET cap == user_profile.max_distance_km
            s == fn_out.forward.distance
            km == CalculateDistance(Val(user_profile.latitude), Val(user_profile.longitude),
                                    Val(match_profile.latitude), Val(match_profile.longitude))
        IN  (cap = None \/ Val(cap) > 0) =>
                IF HasCoordinates(user_profile) /\ HasCoordinates(match_profile)
                THEN s = StepRule(km, IF cap = None THEN 100 ELSE Val(cap))
                ELSE s = Rat(1, 2)

\* the ordinal level of a drinking habit as the rule states it
OrdinalLevel(habit) ==
    IF habit = "never" THEN 0
    ELSE IF habit = "occasionally" THEN 1
    ELSE IF habit = "regularly" THEN 3
    ELSE IF habit = "heavily" THEN 4
    ELSE 2

\* 1 for an exact match and 0 otherwise
ExactMatch(x, y) == IF x = y THEN One ELSE Zero

\* C25: the lifestyle sub-score is the average, over the sub-factors
\* present on both sides, of the drinking factor (1.0 if equal, 0.7 if the
\* ordinal levels differ by at most 1, else 0), the smoking exact match and
\* the lifestyle-preference exact match; 0.5 when no sub-factor is present;
\* always within [0, 1].
C25_LifestyleIsAverage ==
    BothWays =>
        LET u == user_profile
            m == match_profile
            s == fn_out.forward.lifestyle
            dri == u.drinking_habit # None /\ m.drinking_habit # None
            smo == u.smoking_habit # None /\ m.smoking_habit # None
            lif == u.lifestyle_preference # None /\ m.lifestyle_preference # None
            drinking == IF u.drinking_habit = m.drinking_habit THEN One
                        ELSE IF Abs(OrdinalLevel(Val(u.drinking_habit))
                                    - OrdinalLevel(Val(m.drinking_habit))) <= 1
                             THEN Rat(7, 10)
                             ELSE Zero
            sum == RAdd(RAdd(IF dri THEN drinking ELSE Zero,
                             IF smo THEN ExactMatch(u.smoking_habit, m.smoking_habit)
                                    ELSE Zero),
                        IF lif THEN ExactMatch(u.lifestyle_preference, m.lifestyle_preference)
                               ELSE Zero)
            n == Cardinality({f \in {"dri", "smo", "lif"} :
                                \/ f = "dri" /\ dri
                                \/ f = "smo" /\ smo
                                \/ f = "lif" /\ lif})
        IN  /\ n = 0 => s = Rat(1, 2)
            /\ n > 0 => s = RDiv(sum, FromInt(n))
            /\ RGeq(s, Zero) /\ RLeq(s, One)

\* prefer_not_to_say against regularly (levels 2 and 3), the same smoking
\* habit and different lifestyle preferences
C25_Witness ==
    /\ BothWays
    /\ user_profile.drinking_habit = Some("prefer_not_to_say")
    /\ match_profile.drinking_habit = Some("regularly")
    /\ user_profile.smoking_habit = Some("never")
    /\ match_profile.smoking_habit = Some("never")
    /\ user_profile.lifestyle_preference = Some("balanced")
    /\ match_profile.lifestyle_preference = Some("night_owl")
    /\ fn_out.forward.lifestyle = Rat(17, 30)

----------------------------------------------------------------------------
(* Properties of the hard filter                                           *)

Filtered == fn_pc = "filtered"
Kept == Filtered /\ fn_out.filtered = <<match_profile>>
Rejected == Filtered /\ fn_out.filtered = <<>>

\* the optional attributes of the candidate the filter reads are all absent
AllAbsent(p) ==
    /\ p.age = None /\ p.latitude = None /\ p.longitude = None /\ p.gender = None
    /\ p.smoking_habit = None /\ p.drinking_habit = None /\ p.children_status = None
    /\ p.religion = None /\ p.education_level = None

\* C5 as stated: a candidate with every optional attribute absent is kept
\* whatever the seeker's preferences, deal-breakers and must-haves are.
C5_AbsentDataNeverRejects ==
    (Filtered /\ AllAbsent(match_profile)) => Kept

\* C5 amended: a candidate with every optional attribute absent is rejected
\* exactly when the must-haves contain same_religion or same_education.
C5_AbsentDataRejectedOnlyByMustHave ==
    (Filtered /\ AllAbsent(match_profile))
    => (Rejected <=> (\/ In("same_religion", OrEmpty(user_profile.must_haves))
                      \/ In("same_education", OrEmpty(user_profile.must_haves))))

\* an all-absent candidate kept although the seeker has deal-breakers, a
\* gender preference and a distance cap
C5_Witness ==
    /\ Kept /\ AllAbsent(match_profile)
    /\ user_profile.deal_breakers = Some(<<"smoking", "no_kids", "drinking">>)
    /\ user_profile.must_haves = Some(<<"no_children">>)
    /\ user_profile.preferred_genders = Some(<<"female">>)
    /\ user_profile.max_distance_km = Some(10)

\* C6: with a max-distance preference (a positive number of kilometres) and
\* coordinates on both sides (0 included), a candidate farther away than the
\* preference is excluded.
C6_BeyondCapExcluded ==
    (/\ Filtered
     /\ user_profile.max_distance_km # None /\ Val(user_profile.max_distance_km) > 0
     /\ user_profile.latitude # None /\ user_profile.longitude # None
     /\ match_profile.latitude # None /\ match_profile.longitude # None
     /\ CalculateDistanceMetres(Val(user_profile.latitude), Val(user_profile.longitude),
                                Val(match_profile.latitude), Val(match_profile.longitude))
          > 1000 * Val(user_profile.max_distance_km))
    => Rejected

\* C7: a candidate whose relationship type sought is known and not among the
\* seeker's accepted relationship types is excluded.
C7_RelationshipTypeEnforced ==
    (/\ Filtered
     /\ TruthySeq(user_profile.preferred_relationship_types)
     /\ match_profile.relationship_type_seeking # None
     /\ ~In(Val(match_profile.relationship_type_seeking),
            Val(user_profile.preferred_relationship_types)))
    => Rejected

\* C10: no candidate in the filter's output triggers a deal-breaker of the seeker.
C10_NoDealBreakerSurvives ==
    Kept =>
      LET db == Range(OrEmpty(user_profile.deal_breakers))
      IN  /\ "smoking" \in db
              => match_profile.smoking_habit \notin {Some("regularly"), Some("occasionally")}
          /\ "no_kids" \in db
              => match_profile.children_status # Some("has_children")
          /\ "drinking" \in db
              => match_profile.drinking_habit \notin {Some("regularly"), Some("heavily")}

\* a candidate who drinks socially, quit smoking and is otherwise a full
\* match survives a seeker with all three deal-breakers
C10_Witness ==
    /\ Kept
    /\ user_profile.deal_breakers = Some(<<"smoking", "no_kids", "drinking">>)
    /\ match_profile.smoking_habit = Some("quit")
    /\ match_profile.drinking_habit = Some("social_drinker")
    /\ match_profile.children_status = Some("no_children")

\* C11: every candidate in the filter's output satisfies all of the seeker's
\* must-haves: with same_religion its religion is present and equal to the
\* seeker's, with same_education its education level is present and equal to
\* the seeker's, with no_children its children status is not has_children.
C11_MustHavesSatisfied ==
    Kept =>
      LET mh == Range(OrEmpty(user_profile.must_haves))
      IN  /\ "same_religion" \in mh
              => /\ match_profile.religion # None
                 /\ match_profile.religion = user_profile.religion
          /\ "same_education" \in mh
              => /\ match_profile.education_level # None
                 /\ match_profile.education_level = user_profile.education_level
          /\ "no_children" \in mh
              => match_profile.children_status # Some("has_children")

\* a candidate of the seeker's religion and education level who wants
\* children survives a seeker with all three must-haves
C11_Witness ==
    /\ Kept
    /\ user_profile.must_haves = Some(<<"same_religion", "same_education", "no_children">>)
    /\ match_profile.religion = Some("christianity")
    /\ match_profile.education_level = Some("bachelors")
    /\ match_profile.children_status = Some("wants_children")

\* C12: every candidate of known age in the filter's output lies inside the
\* seeker's age window (age >= the preferred minimum when that is set, age <=
\* the preferred maximum when that is set), and a candidate of unknown age
\* fares as it would with no age window at all.
C12_AgeWindowEnforced ==
    Filtered =>
      /\ (Kept /\ match_profile.age # None)
            => /\ user_profile.preferred_age_min # None
                     => Val(match_profile.age) >= Val(user_profile.preferred_age_min)
               /\ user_profile.preferred_age_max # None
                     => Val(match_profile.age) <= Val(user_profile.preferred_age_max)
      /\ match_profile.age = None
            => (Kept <=> PassesFilters([user_profile EXCEPT !.preferred_age_min = None,
                                                            !.preferred_age_max = None],
                                       match_profile))

\* C13: with a non-empty preferred-genders set every candidate in the
\* filter's output has no known gender or a gender of that set; with an empty
\* or absent set a candidate fares as it would with no known gender.
C13_GenderPreferenceEnforced ==
    Filtered =>
      /\ (Kept /\ TruthySeq(user_profile.preferred_genders))
            => \/ match_profile.gender = None
               \/ Val(match_profile.gender) \in Range(Val(user_profile.preferred_genders))
      /\ ~TruthySeq(user_profile.preferred_genders)
            => (Kept <=> PassesFilters(user_profile,
                                       [match_profile EXCEPT !.gender = None]))

\* a female candidate kept by a seeker who prefers female only
C13_Witness ==
    /\ Kept
    /\ user_profile.preferred_genders = Some(<<"female">>)
    /\ match_profile.gender = Some("female")

\* the filter has run again after the seeker added a deal-breaker
Refiltered == fn_pc = "filtered" /\ fn_out.before # None

\* C14: the filter is monotonic in the deal-breaker set: the output after a
\* tag is added to the seeker's deal-breakers is a subset of the output
\* before, so the filtered set never grows.
C14_MoreDealBreakersFewerCandidates ==
    Refiltered
    => /\ Range(fn_out.filtered) \subseteq Range(Val(fn_out.before))
       /\ Len(fn_out.filtered) <= Len(Val(fn_out.before))

\* "drinking" added to a seeker who already had "smoking": of two candidates
\* that passed before, the regular drinker is gone and the other remains
C14_Witness ==
    /\ Refiltered
    /\ user_profile.deal_breakers = Some(<<"smoking", "drinking">>)
    /\ Len(Val(fn_out.before)) = 2
    /\ Len(fn_out.filtered) = 1

----------------------------------------------------------------------------
(* Properties of the boosts                                                *)

Boosted == fn_pc = "boosted"

\* +5 when last active less than 1 hour before the clock reading, +3 when less
\* than 24 hours, +1 when less than 7 days, else +0 (times in half hours)
RecencyBoost(profile, clock) ==
    IF profile.last_active_at = None THEN 0
    ELSE LET half_hours == clock - Val(profile.last_active_at)
         IN  IF half_hours < 2 THEN 5
             ELSE IF half_hours < 48 THEN 3
             ELSE IF half_hours < 336 THEN 1
             ELSE 0

\* +3 at 90% and above, +1 from 70% to below 90%, else +0
CompletenessBoost(profile) ==
    LET percentage == IF profile.profile_completion_percentage = None THEN 0
                      ELSE Val(profile.profile_completion_percentage)
    IN  IF percentage >= 90 THEN 3 ELSE IF percentage >= 70 THEN 1 ELSE 0

VerificationBoost(profile) == IF profile.is_verified THEN 2 ELSE 0

\* C15: every final score is min(100, raw score + recency boost +
\* completeness boost + verification boost) with the boosts of the three
\* tables above; a candidate active 30 minutes ago, 95% complete and verified
\* receives +10; no final score exceeds 100.
C15_FinalScoreIsCappedSum ==
    Boosted =>
      \A k \in DOMAIN matches :
          LET profile == matches[k].profile
              boosts == RecencyBoost(profile, now) + CompletenessBoost(profile)
                        + VerificationBoost(profile)
          IN  /\ matches[k].score
                    = RMin(FromInt(100), RAdd(fn_out.raw[k], FromInt(boosts)))
              /\ RLeq(matches[k].score, FromInt(100))
              /\ (/\ profile.last_active_at = Some(now - 1)
                  /\ profile.profile_completion_percentage = Some(95)
                  /\ profile.is_verified)
                    => matches[k].score
                          = RMin(FromInt(100), RAdd(fn_out.raw[k], FromInt(10)))

\* a candidate with raw score 87.5, active 30 minutes ago, 95% complete and
\* verified ends at 97.5
C15_Witness ==
    /\ Boosted
    /\ matches[1].profile.last_active_at = Some(now - 1)
    /\ matches[1].profile.profile_completion_percentage = Some(95)
    /\ matches[1].profile.is_verified
    /\ fn_out.raw[1] = Rat(175, 2)
    /\ matches[1].score = Rat(195, 2)

Matched == fn_pc = "matched"

\* the distance between the seeker and a profile, both with coordinates
DistanceTo(p) ==
    CalculateDistance(Val(user_profile.latitude), Val(user_profile.longitude),
                      Val(p.latitude), Val(p.longitude))

\* C30: for every candidate that survives the hard filter of a seeker whose
\* max_distance_km is set, the distance sub-score used in its score is at
\* least 0.5 unless the candidate's distance equals the cap exactly.
C30_SurvivorsScoreAtLeastHalf ==
    (Matched /\ user_profile.max_distance_km # None) =>
        \A i \in DOMAIN fn_out.matches :
            LET p == fn_out.matches[i].profile
            IN  \/ RGeq(fn_out.distance_score[i], Rat(1, 2))
                \/ /\ HasCoordinates(user_profile) /\ HasCoordinates(p)
                   /\ DistanceTo(p) = FromInt(Val(user_profile.max_distance_km))

\* the same for the positive caps only
C30_PositiveCapSurvivorsScoreAtLeastHalf ==
    (Matched /\ user_profile.max_distance_km # None
             /\ Val(user_profile.max_distance_km) > 0) =>
        \A i \in DOMAIN fn_out.matches :
            RGeq(fn_out.distance_score[i], Rat(1, 2))

----------------------------------------------------------------------------
(* Properties of find_matches                                              *)

\* C3: applying boosts never decreases a score: every entry's score after
\* _apply_boosts is at least the score it had before.
C3_BoostNeverDecreases ==
    [][\A c \in Calls :
          (pc[c] = "boost" /\ pc'[c] = "rank")
          => \A k \in DOMAIN matches[c] :
                RGeq(matches'[c][k].score, matches[c][k].score)]_vars

\* C9 as stated: two invocations with the same seeker, pool, offset and limit
\* return the same list with the same scores, whenever each of them runs.
C9_SameInputsSameResult ==
    \A c, d \in Calls :
        (pc[c] = "done" /\ pc[d] = "done" /\ args[c] = args[d])
        => result[c] = result[d]

\* C9 amended: two invocations with the same seeker, pool, offset and limit
\* that read the same clock value return the same list with the same scores.
C9_SameInputsSameClockSameResult ==
    \A c, d \in Calls :
        (pc[c] = "done" /\ pc[d] = "done" /\ args[c] = args[d]
         /\ called_at[c] = called_at[d])
        => result[c] = result[d]

\* two calls with the same arguments and the same clock reading, each
\* returning a page of two entries of equal score, the second after the clock moved on
C9_Witness ==
    /\ pc[1] = "done" /\ pc[2] = "done"
    /\ args[1] = args[2]
    /\ called_at[1] = called_at[2]
    /\ Len(result[1]) = 2
    /\ result[1][1].score = result[1][2].score
    /\ result[1][1].profile.last_active_at # None

\* C16: the list find_matches returns is sorted by final score in descending
\* order: of two adjacent entries the earlier one's score is >= the later one's.
C16_ResultSortedDescending ==
    \A c \in Calls :
        pc[c] = "done"
        => \A k \in 1..(Len(result[c]) - 1) :
              RGeq(result[c][k].score, result[c][k + 1].score)

\* a returned page of two entries of different scores, the row the query
\* returned second ranked first
C16_Witness ==
    \E c \in Calls :
        /\ pc[c] = "done"
        /\ Len(result[c]) = 2
        /\ RGt(result[c][1].score, result[c][2].score)
        /\ result[c][1].profile.id > result[c][2].profile.id

\* C19: interleaved calls do not interfere: every call returns what the same
\* call returns when it runs alone (same seeker, table, limit, offset and
\* clock reading), and no call's list of matches is touched by another call:
\* it is empty until the call scores and is the call's own boosted list after
\* the call has applied its boosts.
C19_CallsDoNotInterfere ==
    LET scored == ScoredMatchesAlone(user_profile, profiles)
    IN  \A c \in Calls :
            /\ pc[c] = "done"
                  => result[c] = FindMatchesAlone(scored, args[c], called_at[c])
            /\ pc[c] \in {"rank", "done"}
                  => matches[c] = BoostAll(scored, called_at[c])
            /\ pc[c] \in {"idle", "get", "filter", "score"}
                  => matches[c] = <<>> /\ result[c] = <<>>

\* the second call started while the first was suspended in its query and
\* returned before the first resumed: it read an earlier clock value, and the
\* two calls, made with different arguments, returned different pages
C19_Witness ==
    /\ pc[1] = "done" /\ pc[2] = "done"
    /\ called_at[2] < called_at[1]
    /\ args[1] # args[2]
    /\ result[1] # <<>> /\ result[2] # <<>>
    /\ result[1] # result[2]

\* the profiles the records of call c hold
HeldProfiles(c) ==
    Range(all_profiles[c]) \cup Range(filtered[c])
    \cup {matches[c][k].profile : k \in DOMAIN matches[c]}
    \cup {result[c][k].profile : k \in DOMAIN result[c]}

\* C23: find_matches has no side effects on its inputs: no step changes a
\* field of the seeker profile or of a candidate profile, or the membership
\* or order of the candidate pool; a step writes only the records of its own
\* call, and the profiles those records hold are rows of the pool as they are.
C23_InputsUnchanged ==
    [][/\ user_profile' = user_profile
       /\ profiles' = profiles
       /\ \A c \in Calls :
            \/ pc'[c] # pc[c]
            \/ /\ all_profiles'[c] = all_profiles[c]
               /\ filtered'[c] = filtered[c]
               /\ matches'[c] = matches[c]
               /\ result'[c] = result[c]
       /\ \A c \in Calls : HeldProfiles(c)' \subseteq Range(profiles)]_vars

\* a call has returned boosted entries and the pool still holds the rows the
\* entries were made from
C23_Witness ==
    \E c \in Calls :
        /\ pc[c] = "done"
        /\ Len(result[c]) = 2
        /\ \A k \in DOMAIN result[c] : result[c][k].score # result[c][k].match_percentage
        /\ \A k \in DOMAIN result[c] : result[c][k].profile \in Range(profiles)

\* the position of a profile in the candidate pool
PoolIndex(p) == CHOOSE k \in DOMAIN profiles : profiles[k].id = p.id

\* C26: ties are broken by input order: two returned entries of equal final
\* score are in the relative order their profiles have in the candidate pool.
C26_TiesKeepPoolOrder ==
    \A c \in Calls :
        pc[c] = "done"
        => \A i, j \in DOMAIN result[c] :
              (i < j /\ result[c][i].score = result[c][j].score)
              => PoolIndex(result[c][i].profile) < PoolIndex(result[c][j].profile)

\* a returned page of two entries of equal final score below the cap, in
\* the order of the pool
C26_Witness ==
    \E c \in Calls :
        /\ pc[c] = "done"
        /\ Len(result[c]) = 2
        /\ result[c][1].score = result[c][2].score
        /\ RLt(result[c][1].score, FromInt(100))
        /\ PoolIndex(result[c][1].profile) < PoolIndex(result[c][2].profile)

\* the profiles of a list of entries, in the order of the list
ProfilesOf(ms) == [k \in DOMAIN ms |-> ms[k].profile]

\* C27: every returned entry refers to a profile of the candidate pool that
\* passed every hard filter, no profile is returned twice, and the scorer and
\* the booster run on the hard-filter survivors only: the scored and boosted
\* entries are the survivors, one entry each, and a rejected candidate is in
\* no entry.
C27_OnlySurvivorsScoredAndReturned ==
    \A c \in Calls :
        /\ pc[c] \in {"boost", "rank", "done"}
              => /\ ProfilesOf(matches[c]) = filtered[c]
                 /\ \A p \in Range(all_profiles[c]) :
                        ~PassesFilters(user_profile, p)
                        => p \notin Range(ProfilesOf(matches[c]))
        /\ pc[c] = "done"
              => /\ \A k \in DOMAIN result[c] :
                        LET p == result[c][k].profile
                        IN  /\ p \in Range(profiles)
                            /\ p.id # user_profile.id /\ p.is_discoverable
                            /\ PassesFilters(user_profile, p)
                 /\ \A i, j \in DOMAIN result[c] :
                        i # j => result[c][i].profile.id # result[c][j].profile.id

\* a call whose query returned two candidates, one of them rejected by the
\* hard filter, has returned the other one alone on a page of two
C27_Witness ==
    \E c \in Calls :
        /\ pc[c] = "done"
        /\ args[c] = [limit |-> 2, offset |-> 0]
        /\ Len(all_profiles[c]) = 2
        /\ Len(filtered[c]) = 1
        /\ ProfilesOf(result[c]) = filtered[c]

----------------------------------------------------------------------------
(* Properties of ranking and pagination                                    *)

Paged == fn_pc = "paged"

IntMin(a, b) == IF a <= b THEN a ELSE b
IntMax(a, b) == IF a >= b THEN a ELSE b

\* C17 as stated: for offset >= 0 and limit >= 1 the number of entries
\* returned equals min(limit, n - offset), n the number of scored candidates,
\* is never negative and never exceeds limit.
C17_LengthIsMinLimitRest ==
    (Paged /\ args.offset >= 0 /\ args.limit >= 1)
    => /\ Len(fn_out.page) = IntMin(args.limit, Len(matches) - args.offset)
       /\ Len(fn_out.page) >= 0
       /\ Len(fn_out.page) <= args.limit

\* C17 amended: for offset >= 0 and limit >= 1 the number of entries returned
\* equals max(0, min(limit, n - offset)).
C17_LengthIsMinLimitRestOrZero ==
    (Paged /\ args.offset >= 0 /\ args.limit >= 1)
    => /\ Len(fn_out.page)
            = IntMax(0, IntMin(args.limit, Len(matches) - args.offset))
       /\ Len(fn_out.page) <= args.limit

\* the last page cut short: offset 1 and limit 3 on two candidates return one entry
C17_Witness ==
    /\ Paged
    /\ args = [limit |-> 3, offset |-> 1]
    /\ Len(matches) = 2
    /\ Len(fn_out.page) = 1

RECURSIVE Concat(_, _)
\* the first k lists of a list of lists, concatenated
Concat(lists, k) == IF k = 0 THEN <<>> ELSE Concat(lists, k - 1) \o lists[k]

\* the hard-filter survivors of the pool
Survivors ==
    {p \in Range(profiles) :
        /\ p.id # user_profile.id /\ p.is_discoverable
        /\ PassesFilters(user_profile, p)}

\* the places (page, position) at which a profile is returned
PlacesOf(p) ==
    {pl \in (DOMAIN fn_out.pages) \X (1..MaxLimit) :
        /\ pl[2] \in DOMAIN fn_out.pages[pl[1]]
        /\ fn_out.pages[pl[1]][pl[2]].profile = p}

\* C28: pagination partitions the ranking: for a fixed seeker, pool and clock
\* reading and a limit L >= 1 the pages at offsets 0, L, 2L, ... concatenate
\* to the full ranked list, every hard-filter survivor is on exactly one
\* page, and the number of entries over all pages is the count the
\* count-only query reports.
C28_PagesPartitionRanking ==
    (fn_pc = "end" /\ fn_out.total_matches # None) =>
        LET all == Concat(fn_out.pages, Len(fn_out.pages))
            ranking == SortedByScoreDesc(BoostAll(ScoredMatchesAlone(user_profile, profiles),
                                                  now))
        IN  /\ all = ranking
            /\ \A p \in Survivors : Cardinality(PlacesOf(p)) = 1
            /\ \A k \in 1..(Len(fn_out.pages) - 2) : Len(fn_out.pages[k]) = fn_out.limit
            /\ Len(all) = Val(fn_out.total_matches)

\* two survivors of three candidates walked with pages of one entry: the
\* lower-ranked row first in the pool, two pages of one entry and the empty
\* page, and a count of 2
C28_Witness ==
    /\ fn_pc = "end"
    /\ fn_out.limit = 1
    /\ fn_out.total_matches = Some(2)
    /\ Len(fn_out.pages) = 3
    /\ fn_out.pages[1] # <<>> /\ fn_out.pages[2] # <<>>
    /\ fn_out.pages[1][1].profile.id > fn_out.pages[2][1].profile.id
    /\ RGt(fn_out.pages[1][1].score, fn_out.pages[2][1].score)
====
